---- MODULE Spec2Model ----
(***************************************************************************)
(* Model of craigslist_cars.py: the attribute extractor                    *)
(* (parse_car_conditions), the listing fetcher (parse_car_listing), the    *)
(* search orchestrator (get_craigslist_cars) and the filter (filter_cars). *)
(*                                                                         *)
(* Text is a sequence of one-character strings, so that strip() and        *)
(* split(':') are computed as Python computes them.  A dictionary is a     *)
(* function whose DOMAIN is its key set.                                    *)
(***************************************************************************)
EXTENDS Integers, Sequences, FiniteSets, TLC

\* ------------------------------------------------------------------ bounds
MaxLen == 3
MaxSpans == 2
MaxGroups == 2
MaxRows == 3
MaxResults == 3
MaxCars == 2

\* ------------------------------------------------------------------- text
Chars == {" ", ":", "a", "B"}

Texts == UNION {[1..n -> Chars] : n \in 0..MaxLen}

RECURSIVE lstrip(_)
lstrip(s) == IF s # <<>> /\ Head(s) = " " THEN lstrip(Tail(s)) ELSE s

RECURSIVE rstrip(_)
rstrip(s) ==
    IF s # <<>> /\ s[Len(s)] = " " THEN rstrip(SubSeq(s, 1, Len(s) - 1)) ELSE s

\* str.strip()
strip(s) == rstrip(lstrip(s))

\* position of the first sep in s, 0 when there is none
RECURSIVE find(_, _, _)
find(s, sep, from) ==
    IF from > Len(s) THEN 0
    ELSE IF s[from] = sep THEN from
    ELSE find(s, sep, from + 1)

\* str.split(sep): every occurrence of sep is a delimiter
RECURSIVE split(_, _)
split(s, sep) ==
    LET p == find(s, sep, 1) IN
    IF p = 0 THEN <<s>>
    ELSE <<SubSeq(s, 1, p - 1)>> \o split(SubSeq(s, p + 1, Len(s)), sep)

\* ------------------------------------------------- parse_car_conditions
AttributeKey == <<"a", "t", "t", "r", "i", "b", "u", "t", "e">>

\* defaultdict(list): d[k].append(v)
DictAppend(d, k, v) ==
    IF k \in DOMAIN d THEN [d EXCEPT ![k] = Append(@, v)] ELSE d @@ (k :> <<v>>)

\* body of the inner loop: one span's text
AddCondition(d, text) ==
    LET condition_str == split(strip(text), ":") IN
    IF Len(condition_str) > 1
    THEN DictAppend(d, strip(condition_str[1]), strip(condition_str[2]))
    ELSE DictAppend(d, AttributeKey, strip(condition_str[1]))

RECURSIVE AddGroup(_, _)
AddGroup(d, spans) ==
    IF spans = <<>> THEN d ELSE AddGroup(AddCondition(d, Head(spans)), Tail(spans))

RECURSIVE parse_car_conditions_from(_, _)
parse_car_conditions_from(d, condition_groups) ==
    IF condition_groups = <<>> THEN d
    ELSE parse_car_conditions_from(AddGroup(d, Head(condition_groups)),
                                   Tail(condition_groups))

parse_car_conditions(condition_groups) ==
    parse_car_conditions_from(<<>>, condition_groups)

\* ------------------------------------------------------- parse_car_listing
\* find() gives None or the element: a sequence of length 0 or 1
NoElement == <<>>

Key_price == <<"p", "r", "i", "c", "e">>
Key_time_posted == <<"t", "i", "m", "e", "_", "p", "o", "s", "t", "e", "d">>
Key_url == <<"u", "r", "l">>
Key_posting_title == <<"p", "o", "s", "t", "i", "n", "g", "_", "t", "i", "t", "l", "e">>
Key_posting_body == <<"p", "o", "s", "t", "i", "n", "g", "_", "b", "o", "d", "y">>
Key_odometer == <<"o", "d", "o", "m", "e", "t", "e", "r">>
Key_title == <<"t", "i", "t", "l", "e">>
Key_title_status == <<"t", "i", "t", "l", "e", " ", "s", "t", "a", "t", "u", "s">>

\* d[k] = v
DictSet(d, k, v) ==
    IF k \in DOMAIN d THEN [d EXCEPT ![k] = v] ELSE d @@ (k :> v)

\* urlparse.urljoin(base, link): a link that names a host replaces the base,
\* a link that is a path keeps the base's host
urljoin(base, link) ==
    IF link.host = "" THEN [host |-> base.host, path |-> link.path] ELSE link

\* line 108
base_url(c) == [host |-> c, path |-> "/"]

\* the datetime attribute carries a local time and a zone offset;
\* replace(tzinfo=None) drops the offset without converting
parse_time_posted(page) == page.time[1].local

\* the exception parse_car_listing raises on this response, "none" when it returns
ListingError(page) ==
    IF ~page.reachable THEN "ConnectionError"
    ELSE IF page.time = NoElement THEN "AttributeError"
    ELSE IF page.title = NoElement THEN "AttributeError"
    ELSE IF page.body = NoElement THEN "AttributeError"
    ELSE "none"

\* lines 71-99, for a response on which nothing raises
parse_car_listing(page, details_url, price) ==
    LET car_attributes == parse_car_conditions(page.groups)
        a1 == DictSet(car_attributes, Key_price, price)
        a2 == DictAppend(a1, Key_time_posted, parse_time_posted(page))
        a3 == DictAppend(a2, Key_url, details_url)
        a4 == DictAppend(a3, Key_posting_title, strip(page.title[1]))
    IN  DictAppend(a4, Key_posting_body, strip(page.body[1]))

\* ----------------------------------------------------- get_craigslist_cars
Cities == {"sfbay"}

PriceTexts == {<<" ", "$", "1">>, <<"$", "2">>}

Hrefs == {[host |-> "", path |-> "/a"], [host |-> "elsewhere", path |-> "/b"]}

\* a result row: its result-price span and its first anchor, each possibly missing
Rows == [price : {NoElement} \cup {<<p>> : p \in PriceTexts},
         a : {NoElement} \cup {<<h>> : h \in Hrefs}]

ResultPages == UNION {[1..n -> Rows] : n \in 0..MaxRows}

GroupSamples ==
    { << <<Key_odometer \o <<":", " ", "1">>, Key_title_status \o <<":", "a">> >> >>,
      << <<Key_url \o <<":", "a">> >>, << <<"B">> >> >> }

\* a detail page as the fetch delivers it
DetailPages ==
    [reachable : BOOLEAN,
     groups : GroupSamples,
     time : {NoElement, <<[local |-> 3, offset |-> -7]>>},
     title : {NoElement, <<<<" ", "a">>>>},
     body : {NoElement, <<<<"B", " ">>>>}]

\* the cap test off by one
CapReached_late(cs, cap) == Len(cs) > cap

\* the cap test left out
CapReached_never(cs, cap) == FALSE

\* line 176
CapReached(cs, cap) == Len(cs) >= cap

\* every row given the price of the last row
BuildPriceDict_last(ps) == [k \in 1..Len(ps) |-> strip(ps[Len(ps)].price[1])]

\* lines 158-162: row index -> stripped price text (rows are numbered from 1 here)
BuildPriceDict(ps) == [k \in 1..Len(ps) |-> strip(ps[k].price[1])]

\* ---------------------------------------------------------------- filter_cars
\* line 210
Sentinel == -999

\* line 197: relativedelta(weeks=+2); times are counted in weeks
TwoWeeks == 2

\* line 211
Placeholder ==
    <<"u", "n", "a", "b", "l", "e", " ", "t", "o", " ", "s", "c", "r", "a", "p", "e",
      " ", "y", "e", "t", " ", "-", " ", "v", "i", "e", "w", " ", "l", "i", "n", "k",
      " ", "u", "n", "t", "i", "l", " ", "b", "u", "g", " ", "i", "s", " ", "f", "i",
      "x", "e", "d">>

\* Python's None as a title
None == <<"None">>

Digits == <<"0", "1", "2", "3", "4", "5", "6", "7", "8", "9">>

DigitValue(c) == (CHOOSE k \in 1..10 : Digits[k] = c) - 1

IsDigit(c) == \E k \in 1..10 : Digits[k] = c

RECURSIVE DecimalValue(_, _)
DecimalValue(s, acc) ==
    IF s = <<>> THEN acc ELSE DecimalValue(Tail(s), 10 * acc + DigitValue(Head(s)))

\* float(text): <<number>>, or <<>> where Python raises ValueError
float(text) ==
    LET t == strip(text) IN
    IF t # <<>> /\ \A k \in 1..Len(t) : IsDigit(t[k])
    THEN <<DecimalValue(t, 0)>>
    ELSE <<>>

\* v[0]: the first element of a list, the first character of a str
Index0(v) == IF v = Placeholder THEN <<v[1]>> ELSE v[1]

\* a missing odometer taken as a failed comparison
ReadOdometer_high(car) ==
    IF Key_odometer \in DOMAIN car
    THEN float(Index0(car[Key_odometer]))
    ELSE <<-Sentinel>>

\* lines 207-210 and the float(odometer) of line 229
ReadOdometer(car) ==
    IF Key_odometer \in DOMAIN car
    THEN float(Index0(car[Key_odometer]))
    ELSE <<Sentinel>>

\* the two keys read in the other order
ResolveTitle_swapped(car) ==
    LET t1 == IF Key_title_status \in DOMAIN car THEN car[Key_title_status][1] ELSE None
    IN  IF Key_title \in DOMAIN car THEN car[Key_title][1] ELSE t1

\* lines 212-216
ResolveTitle(car) ==
    LET t1 == IF Key_title \in DOMAIN car THEN car[Key_title][1] ELSE None
    IN  IF Key_title_status \in DOMAIN car THEN car[Key_title_status][1] ELSE t1

\* the cutoff taken from the caller's week count
MinPostingDate_param(t, weeks) == t - weeks

\* line 197
MinPostingDate(t, weeks) == t - TwoWeeks

\* lines 229-230
Accepts(odometer, mileage, ttl, unallowed, time_posted, min_date) ==
    /\ odometer < mileage
    /\ ttl \notin unallowed
    /\ time_posted >= min_date

\* inputs of the filter
Clean == <<"c", "l", "e", "a", "n">>

Salvage == <<"s", "a", "l", "v", "a", "g", "e">>

OdometerOptions == {<<>>, << <<<<"1">>>> >>, << <<<<" ", "2">>>> >>}

TitleOptions ==
    {<< <<>>, <<>> >>, << <<<<Salvage>>>>, <<>> >>, << <<>>, <<<<Salvage>>>> >>,
     << <<<<Salvage>>>>, <<<<Clean>>>> >>, << <<<<Clean>>>>, <<<<Salvage>>>> >>}

Times == 0..2

Nows == {3}

MaxMileages == {Sentinel - 1, 2}

UnallowedSets == {{Salvage}, {Salvage, None}}

WeekRanges == {1}

\* a dictionary with key k when the option is present
Entry(k, option) == IF option = <<>> THEN <<>> ELSE k :> option[1]

FilterRecords ==
    {(Key_time_posted :> <<tp>>) @@ Entry(Key_odometer, o)
         @@ Entry(Key_title, tt[1]) @@ Entry(Key_title_status, tt[2]) :
       o \in OdometerOptions, tt \in TitleOptions, tp \in Times}

CarLists == UNION {[1..n -> FilterRecords] : n \in 0..MaxCars}

VARIABLES
    pc,               \* orchestrator: position in get_craigslist_cars
    city,
    verbose,
    max_results,
    posts,            \* rows of the results page (line 140)
    price_dict,       \* line 158
    car_listings,     \* line 167
    cars,             \* line 172
    i,                \* loop index of line 174
    details_url,      \* line 179, as <<url>> while a detail fetch is outstanding
    fetch_log,        \* history: requests issued and completed, in order
    error,            \* the exception that ended the run, "none" otherwise
    failed_row,       \* history: the row whose detail fetch or parse raised, 0 if none
    fpc,              \* filter: position in filter_cars
    all_cars,         \* filter: the list passed as cars (main, line 311)
    max_mileage,
    unallowed_conditions,
    num_weeks,
    now,              \* datetime.now() of line 197
    min_posting_date, \* line 197
    filtered_cars,    \* line 198
    fi,               \* filter: index of the next car of the loop of line 201
    title,            \* line 212-216, for the car processed last
    ferror,           \* the exception that ended filter_cars, "none" otherwise
    runs,             \* history: number of calls of filter_cars on all_cars
    cars_at_call,     \* history: all_cars as it was when the current call began
    kept,             \* history: indices of the cars appended to filtered_cars
    xpc,              \* extractor: "idle", "loop", "done"
    condition_groups, \* extractor: the groups read so far, each a sequence of span texts
    conditions_dict   \* extractor: the dictionary being built

svars == <<pc, city, verbose, max_results, posts, price_dict, car_listings, cars, i,
           details_url, fetch_log, error, failed_row>>

xvars == <<xpc, condition_groups, conditions_dict>>

fvars == <<fpc, all_cars, max_mileage, unallowed_conditions, num_weeks, now,
           min_posting_date, filtered_cars, fi, title, ferror, runs, cars_at_call,
           kept>>

vars == <<svars, fvars, xvars>>

\* ---- orchestrator
\* line 134: the results-page request goes out
IssueSearch ==
    /\ pc = "start"
    /\ pc' = "results_wait"
    /\ fetch_log' = Append(fetch_log, [ev |-> "issue", row |-> 0])
    /\ UNCHANGED <<city, verbose, max_results, posts, price_dict, car_listings, cars,
                   i, details_url, error, failed_row, fvars, xvars>>

\* line 134: the request raises
SearchFails ==
    /\ pc = "results_wait"
    /\ pc' = "aborted"
    /\ error' = "ConnectionError"
    /\ UNCHANGED <<city, verbose, max_results, posts, price_dict, car_listings, cars,
                   i, details_url, fetch_log, failed_row, fvars, xvars>>

\* lines 134-155: the results page arrives and is parsed into rows
SearchResponse ==
    /\ pc = "results_wait"
    /\ \E page \in ResultPages :
         /\ posts' = page
         /\ fetch_log' = Append(fetch_log, [ev |-> "complete", row |-> 0])
         /\ IF verbose /\ Len(page) = 0
            THEN pc' = "exited" /\ error' = "SystemExit"
            ELSE pc' = "prices" /\ error' = error
    /\ UNCHANGED <<city, verbose, max_results, price_dict, car_listings, cars, i,
                   details_url, failed_row, fvars, xvars>>

\* lines 157-172: the price table, the second row listing and the empty result
CollectPrices ==
    /\ pc = "prices"
    /\ IF \E k \in 1..Len(posts) : posts[k].price = NoElement
       THEN /\ pc' = "aborted"
            /\ error' = "AttributeError"
            /\ UNCHANGED <<price_dict, car_listings, cars, i>>
       ELSE /\ price_dict' = BuildPriceDict(posts)
            /\ car_listings' = posts
            /\ cars' = <<>>
            /\ i' = 1
            /\ pc' = "loop"
            /\ error' = error
    /\ UNCHANGED <<city, verbose, max_results, posts, details_url, fetch_log,
                   failed_row, fvars, xvars>>

\* lines 174-179 and 67: the next row's detail request goes out
IssueDetail ==
    /\ pc = "loop"
    /\ i <= Len(car_listings)
    /\ ~CapReached(cars, max_results)
    /\ IF car_listings[i].a = NoElement
       THEN /\ pc' = "aborted"
            /\ error' = "AttributeError"
            /\ UNCHANGED <<details_url, fetch_log>>
       ELSE /\ details_url' = <<urljoin(base_url(city), car_listings[i].a[1])>>
            /\ fetch_log' = Append(fetch_log, [ev |-> "issue", row |-> i])
            /\ pc' = "detail_wait"
            /\ error' = error
    /\ UNCHANGED <<city, verbose, max_results, posts, price_dict, car_listings, cars,
                   i, failed_row, fvars, xvars>>

\* lines 67-99 and 180: the detail page arrives; the record is appended, or the
\* exception leaves get_craigslist_cars and the run
DetailResponse ==
    /\ pc = "detail_wait"
    /\ \E page \in DetailPages :
         IF ListingError(page) = "none"
         THEN /\ cars' = Append(cars,
                     parse_car_listing(page, details_url[1], price_dict[i]))
              /\ fetch_log' = Append(fetch_log, [ev |-> "complete", row |-> i])
              /\ i' = i + 1
              /\ details_url' = <<>>
              /\ pc' = "loop"
              /\ UNCHANGED <<error, failed_row>>
         ELSE /\ pc' = "aborted"
              /\ error' = ListingError(page)
              /\ failed_row' = i
              /\ UNCHANGED <<cars, fetch_log, i, details_url>>
    /\ UNCHANGED <<city, verbose, max_results, posts, price_dict, car_listings, fvars, xvars>>

\* lines 174, 176-177, 185: the rows are exhausted or the cap is reached
ReturnCars ==
    /\ pc = "loop"
    /\ (i > Len(car_listings) \/ CapReached(cars, max_results))
    /\ pc' = "returned"
    /\ UNCHANGED <<city, verbose, max_results, posts, price_dict, car_listings, cars,
                   i, details_url, fetch_log, error, failed_row, fvars, xvars>>

SNext ==
    \/ IssueSearch \/ SearchFails \/ SearchResponse \/ CollectPrices
    \/ IssueDetail \/ DetailResponse \/ ReturnCars

\* ---- filter
\* lines 201-233: one iteration of the loop
FilterCar ==
    /\ fpc = "loop"
    /\ fi <= Len(all_cars)
    /\ LET car == all_cars[fi]
           odometer == ReadOdometer(car)
           marked == IF Key_odometer \in DOMAIN car
                     THEN car
                     ELSE DictSet(car, Key_odometer, Placeholder)
           ttl == ResolveTitle(marked)
           time_posted == marked[Key_time_posted][1]
       IN  /\ all_cars' = [all_cars EXCEPT ![fi] = marked]
           /\ title' = ttl
           /\ IF odometer = <<>>
              THEN /\ fpc' = "aborted"
                   /\ ferror' = "ValueError"
                   /\ UNCHANGED <<filtered_cars, kept, fi>>
              ELSE /\ IF Accepts(odometer[1], max_mileage, ttl, unallowed_conditions,
                                 time_posted, min_posting_date)
                      THEN /\ filtered_cars' = Append(filtered_cars, marked)
                           /\ kept' = Append(kept, fi)
                      ELSE UNCHANGED <<filtered_cars, kept>>
                   /\ fi' = fi + 1
                   /\ UNCHANGED <<fpc, ferror>>
    /\ UNCHANGED <<max_mileage, unallowed_conditions, num_weeks, now, min_posting_date,
                   runs, cars_at_call, svars, xvars>>

\* line 235
ReturnFiltered ==
    /\ fpc = "loop"
    /\ fi > Len(all_cars)
    /\ fpc' = "returned"
    /\ UNCHANGED <<all_cars, max_mileage, unallowed_conditions, num_weeks, now,
                   min_posting_date, filtered_cars, fi, title, ferror, runs,
                   cars_at_call, kept, svars, xvars>>

\* the caller passes the same list to filter_cars a second time (lines
\* 188-200 of the second call)
CallAgain ==
    /\ fpc = "returned"
    /\ runs = 1
    /\ runs' = 2
    /\ \E t \in Nows :
         /\ now' = t
         /\ min_posting_date' = MinPostingDate(t, num_weeks)
    /\ filtered_cars' = <<>>
    /\ fi' = 1
    /\ title' = None
    /\ cars_at_call' = all_cars
    /\ kept' = <<>>
    /\ fpc' = "loop"
    /\ UNCHANGED <<all_cars, max_mileage, unallowed_conditions, num_weeks, ferror,
                   svars, xvars>>

FNext == FilterCar \/ ReturnFiltered \/ CallAgain

\* ---- extractor
RECURSIVE CountSpans(_)
CountSpans(gs) == IF gs = <<>> THEN 0 ELSE Len(Head(gs)) + CountSpans(Tail(gs))

\* line 36: the outer loop takes the next attribute group
NextGroup ==
    /\ xpc = "loop"
    /\ Len(condition_groups) < MaxGroups
    /\ condition_groups' = Append(condition_groups, <<>>)
    /\ UNCHANGED <<xpc, conditions_dict, svars, fvars>>

\* lines 39-50: the inner loop takes the next span of the current group
NextSpan ==
    /\ xpc = "loop"
    /\ condition_groups # <<>>
    /\ CountSpans(condition_groups) < MaxSpans
    /\ \E text \in Texts :
         /\ condition_groups' =
               [condition_groups EXCEPT ![Len(condition_groups)] = Append(@, text)]
         /\ conditions_dict' = AddCondition(conditions_dict, text)
    /\ UNCHANGED <<xpc, svars, fvars>>

\* line 53
ReturnConditions ==
    /\ xpc = "loop"
    /\ xpc' = "done"
    /\ UNCHANGED <<condition_groups, conditions_dict, svars, fvars>>

XNext == NextGroup \/ NextSpan \/ ReturnConditions

\* ---- specifications
\* get_craigslist_cars is called; the filter and the extractor stand idle
Init ==
    /\ pc = "start"
    /\ city \in Cities
    /\ verbose \in BOOLEAN
    /\ max_results \in 0..MaxResults
    /\ posts = <<>> /\ price_dict = <<>> /\ car_listings = <<>> /\ cars = <<>>
    /\ i = 0 /\ details_url = <<>> /\ fetch_log = <<>> /\ error = "none"
    /\ failed_row = 0
    /\ fpc = "idle" /\ all_cars = <<>> /\ max_mileage = 0
    /\ unallowed_conditions = {} /\ num_weeks = 0 /\ now = 0
    /\ min_posting_date = 0 /\ filtered_cars = <<>> /\ fi = 0 /\ title = None
    /\ ferror = "none" /\ runs = 0 /\ cars_at_call = <<>> /\ kept = <<>>
    /\ xpc = "idle" /\ condition_groups = <<>> /\ conditions_dict = <<>>

\* filter_cars has been called with its arguments and has run lines 197-200
InitFilter ==
    /\ fpc = "loop"
    /\ all_cars \in CarLists
    /\ max_mileage \in MaxMileages
    /\ unallowed_conditions \in UnallowedSets
    /\ num_weeks \in WeekRanges
    /\ now \in Nows
    /\ min_posting_date = MinPostingDate(now, num_weeks)
    /\ filtered_cars = <<>> /\ fi = 1
    /\ title = None /\ ferror = "none" /\ runs = 1 /\ cars_at_call = all_cars
    /\ kept = <<>>
    /\ pc = "idle" /\ city = "sfbay" /\ verbose = FALSE /\ max_results = 0
    /\ posts = <<>> /\ price_dict = <<>> /\ car_listings = <<>> /\ cars = <<>>
    /\ i = 0 /\ details_url = <<>> /\ fetch_log = <<>> /\ error = "none"
    /\ failed_row = 0
    /\ xpc = "idle" /\ condition_groups = <<>> /\ conditions_dict = <<>>

\* parse_car_conditions has created its empty dictionary (line 35)
InitExtract ==
    /\ xpc = "loop" /\ condition_groups = <<>> /\ conditions_dict = <<>>
    /\ pc = "idle" /\ city = "sfbay" /\ verbose = FALSE /\ max_results = 0
    /\ posts = <<>> /\ price_dict = <<>> /\ car_listings = <<>> /\ cars = <<>>
    /\ i = 0 /\ details_url = <<>> /\ fetch_log = <<>> /\ error = "none"
    /\ failed_row = 0
    /\ fpc = "idle" /\ all_cars = <<>> /\ max_mileage = 0
    /\ unallowed_conditions = {} /\ num_weeks = 0 /\ now = 0
    /\ min_posting_date = 0 /\ filtered_cars = <<>> /\ fi = 0 /\ title = None
    /\ ferror = "none" /\ runs = 0 /\ cars_at_call = <<>> /\ kept = <<>>

Spec == Init /\ [][SNext]_vars

SpecFilter == InitFilter /\ [][FNext]_vars

SpecExtract == InitExtract /\ [][XNext]_vars

\* ------------------------------------------------------------------ claims
Min(a, b) == IF a <= b THEN a ELSE b

Range(f) == {f[k] : k \in DOMAIN f}

\* C1: when get_craigslist_cars returns (every detail page it asked for was
\* fetched and parsed), it returns exactly min(cap, rows) records.
C1_ResultCap ==
    pc = "returned" => Len(cars) = Min(max_results, Len(posts))

C1_Witness ==
    /\ pc = "returned" /\ Len(posts) = 3 /\ max_results = 2 /\ Len(cars) = 2

\* the detail link of row k resolved against the base address of the city
ResolvedLink(k) ==
    LET link == posts[k].a[1] IN
    IF link.host = "" THEN [host |-> city, path |-> link.path] ELSE link

\* C2: the k-th record carries the displayed (stripped) price of the k-th row
\* and, as the url the orchestrator recorded for it, the k-th row's link
\* resolved against the base city address.
C2_PositionalCorrelation ==
    \A k \in 1..Len(cars) :
        /\ cars[k][Key_price] = strip(posts[k].price[1])
        /\ cars[k][Key_url][Len(cars[k][Key_url])] = ResolvedLink(k)

C2_Witness ==
    /\ pc = "returned" /\ Len(cars) = 2
    /\ cars[1][Key_price] = <<"$", "2">>
    /\ cars[2][Key_price] = <<"$", "1">>
    /\ posts[1].a # posts[2].a

\* C3: the log of requests is: results page issued, results page completed,
\* then for rows 1, 2, ... in order "issued, completed", a request being issued
\* only after the one before it completed; no row beyond the cap is asked
\* for (rows are numbered from 1 here, so row k is index k - 1 of the code),
\* and every completed detail request has produced its record.
C3_FetchOrdering ==
    /\ \A j \in 1..Len(fetch_log) :
          /\ fetch_log[j].ev = (IF j % 2 = 1 THEN "issue" ELSE "complete")
          /\ fetch_log[j].row = (j - 1) \div 2
          /\ fetch_log[j].row <= max_results
    /\ pc \in {"loop", "returned"} => Len(fetch_log) = 2 * (Len(cars) + 1)

C3_Witness ==
    /\ pc = "returned" /\ Len(posts) = 3 /\ max_results = 1
    /\ Len(fetch_log) = 4 /\ fetch_log[3] = [ev |-> "issue", row |-> 1]

\* C4: a results page without rows never ends in a plain return of the empty
\* list.
C4_EmptyResultsReported ==
    ~(pc = "returned" /\ Len(posts) = 0)

\* C7: a detail page that fails to fetch or parse does not end the run.
C7_FailureIsolation ==
    failed_row # 0 => pc # "aborted"

\* the odometer of a record as a number, for a record that has a numeric one
NumericOdometer(car) ==
    /\ Key_odometer \in DOMAIN car
    /\ car[Key_odometer] # Placeholder
    /\ float(car[Key_odometer][1]) # <<>>

\* the title the claims name: "title status" first, else "title", else None
ClaimedTitle(car) ==
    IF Key_title_status \in DOMAIN car THEN car[Key_title_status][1]
    ELSE IF Key_title \in DOMAIN car THEN car[Key_title][1]
    ELSE None

Qualifies(car) ==
    /\ float(car[Key_odometer][1])[1] < max_mileage
    /\ ClaimedTitle(car) \notin unallowed_conditions
    /\ car[Key_time_posted][1] >= now - 2

C6_MissingOdometerExcluded ==
    \A j \in 1..Len(kept) : Key_odometer \in DOMAIN cars_at_call[kept[j]]

\* C6, amended: a record without an odometer key is compared as odometer -999:
\* once the loop has passed it, it is in the output exactly when
\* -999 < max mileage, its title is not unallowed and time_posted >= now - 2
\* weeks, and the loop does not raise on it.
C6_MissingOdometerSentinel ==
    \A k \in 1..Len(cars_at_call) :
        Key_odometer \notin DOMAIN cars_at_call[k] =>
            /\ ~(fpc = "aborted" /\ fi = k)
            /\ fi > k =>
                  (k \in Range(kept) <=>
                      /\ -999 < max_mileage
                      /\ ClaimedTitle(cars_at_call[k]) \notin unallowed_conditions
                      /\ cars_at_call[k][Key_time_posted][1] >= now - 2)

C6_Witness ==
    /\ fpc = "returned" /\ Len(cars_at_call) = 2
    /\ Key_odometer \notin DOMAIN cars_at_call[1]
    /\ Key_odometer \notin DOMAIN cars_at_call[2]
    /\ kept = <<2>>
    /\ max_mileage > 0

\* C9: the title compared for the car processed last is the first value under
\* "title status" when the car has that key, otherwise the first value under
\* "title", otherwise None; a car with neither key that passes the odometer
\* and time tests is kept unless None is unallowed.
C9_TitleResolution ==
    (fpc \in {"loop", "returned", "aborted"} /\ fi + (IF fpc = "aborted" THEN 1 ELSE 0) > 1) =>
        LET k == IF fpc = "aborted" THEN fi ELSE fi - 1
            car == cars_at_call[k]
        IN  /\ title = ClaimedTitle(car)
            /\ ( /\ fpc # "aborted"
                 /\ Key_title \notin DOMAIN car
                 /\ Key_title_status \notin DOMAIN car
                 /\ None \notin unallowed_conditions
                 /\ ReadOdometer(car)[1] < max_mileage
                 /\ car[Key_time_posted][1] >= now - 2 )
               => k \in Range(kept)

C9_Witness ==
    /\ fpc = "returned" /\ Len(cars_at_call) = 1
    /\ Key_title \in DOMAIN cars_at_call[1]
    /\ Key_title_status \in DOMAIN cars_at_call[1]
    /\ cars_at_call[1][Key_title] = <<Salvage>>
    /\ title = Clean
    /\ kept = <<1>>

\* C10: filter_cars leaves the list it was given and its records unchanged.
C10_FilterFrame ==
    fpc \in {"loop", "returned", "aborted"} => all_cars = cars_at_call

\* the extraction the claim describes: split at the first colon only, key
\* lower-cased and trimmed, the whole remainder trimmed
Lower(s) == [k \in 1..Len(s) |-> IF s[k] = "B" THEN "b" ELSE s[k]]

ClaimedAddCondition(d, text) ==
    LET t == strip(text)
        p == find(t, ":", 1)
    IN  IF p = 0 THEN DictAppend(d, AttributeKey, t)
        ELSE DictAppend(d, strip(Lower(SubSeq(t, 1, p - 1))),
                        strip(SubSeq(t, p + 1, Len(t))))

RECURSIVE ClaimedDict(_, _)
ClaimedDict(d, spans) ==
    IF spans = <<>> THEN d
    ELSE ClaimedDict(ClaimedAddCondition(d, Head(spans)), Tail(spans))

RECURSIVE Flatten(_)
Flatten(gs) == IF gs = <<>> THEN <<>> ELSE Head(gs) \o Flatten(Tail(gs))

\* C8: the dictionary built from the spans read so far is the one obtained by
\* splitting each span at its first colon (key lower-cased and trimmed, whole
\* remainder trimmed) or filing it under "attribute", in encounter order.
C8_AttributeExtraction ==
    conditions_dict = ClaimedDict(<<>>, Flatten(condition_groups))

====
